---------------------------- MODULE Spec2Model ----------------------------
(***************************************************************************)
(* The versioned entity store of the budget application: the three model   *)
(* classes Projects, ProjectCosts and ProjectOverheads of budget/models.py *)
(* with their save() overrides, the three history tables ProjectVersion,   *)
(* ProjectCostVersion and ProjectOverheadVersion, and the request handlers *)
(* that load an instance, assign fields to it and save it.                 *)
(*                                                                         *)
(* Every database statement is one step.  A handler is a process: it loads *)
(* a row into an in-memory instance, and save() then reads old_instance,   *)
(* inserts the version row and writes the entity row as three statements.  *)
(* Decimal values are whole numbers, text values are short strings, None   *)
(* of a nullable decimal column is NullDecimal.                            *)
(***************************************************************************)
EXTENDS Integers, FiniteSets, Sequences, TLC

\* Bound of the model: number of database writes (the logical clock that
\* feeds created_at stops there).
MaxClock == 5

\* Bound of the model: number of rows ever inserted into one entity table.
MaxRows == 1

\* Alerts ever stored
MaxAlerts == 1

\* UserDetail rows ever stored
MaxUsers == 2

\* The clock of the OTPs stops here
MaxSeconds == 120

\* What timezone.now() advances by between two requests
TickSeconds == 40

\* timedelta(seconds=80) of is_otp_valid
OtpLifetime == 80

\* The primary keys of the chat tables stop here
MaxChat == 3

Emails == {"e1", "e2"}
Otps == {"111111", "222222"}
Passwords == {"pw", "xx"}

Procs == {"h1", "h2"}

Kinds == {"Project", "ProjectCost", "ProjectOverhead"}

\* Projects.version_number / ProjectCosts.version_number /
\* ProjectOverheads.version_number: PositiveIntegerField(default=1)
DefaultVersion == 1

\* None in a nullable DecimalField (ProjectCosts.category_total) and in a
\* nullable ForeignKey (ProjectCosts.project, ProjectOverheads.project)
NullDecimal == -1
NullProject == 0

\* Decimal(str(value)) of a text that spells no number raises InvalidOperation
NotANumber == -2

\* getattr(self, '_changed_by', None) / getattr(self, '_change_reason', 'Updated')
NoActor == "None"
DefaultReason == "Updated"

---------------------------------------------------------------------------
(* The columns of the three entity tables (timestamps aside).              *)

ProjectFields == {"name", "location", "start_date", "end_date", "total_project_cost"}

CostFields ==
    {"category_code", "category_name", "item_description", "supplier_brand",
     "unit", "quantity", "rate_per_unit", "line_total", "category_total"}

OverheadFields == {"overhead_type", "description", "basis", "percentage", "amount"}

Fields(kind) ==
    CASE kind = "Project" -> ProjectFields
      [] kind = "ProjectCost" -> CostFields
      [] kind = "ProjectOverhead" -> OverheadFields

\* The DateField and DecimalField columns
ParsedFields ==
    {"start_date", "end_date", "total_project_cost", "quantity", "rate_per_unit",
     "line_total", "category_total", "percentage", "amount"}

\* A date or decimal n that a caller assigns as the text a JSON body carried
\* (project.start_date = project_data['start_date']) is the value
\* n + TextOffset: in Python it is unequal to every date and Decimal.
TextOffset == 100
AsText(n) == n + TextOffset

\* A faulty variant of fields_to_track: unit and basis counted as tracked.
fields_to_track_with_untracked(kind) ==
    CASE kind = "Project" -> ProjectFields
      [] kind = "ProjectCost" ->
            {"quantity", "rate_per_unit", "supplier_brand", "category_total", "unit"}
      [] kind = "ProjectOverhead" ->
            {"percentage", "amount", "overhead_type", "description", "basis"}

\* fields_to_track of the three save() methods
fields_to_track(kind) ==
    CASE kind = "Project" -> ProjectFields
      [] kind = "ProjectCost" ->
            {"quantity", "rate_per_unit", "supplier_brand", "category_total"}
      [] kind = "ProjectOverhead" ->
            {"percentage", "amount", "overhead_type", "description"}

---------------------------------------------------------------------------
(* Inputs: the field values a create call passes and the update_data an    *)
(* update supplies (a function from some of the fields to new values).     *)

CreateInputs(kind) ==
    CASE kind = "Project" ->
            { [name |-> "a", location |-> "a", start_date |-> 1, end_date |-> 2,
               total_project_cost |-> 0] }
      [] kind = "ProjectCost" ->
            { [category_code |-> "a", category_name |-> "a", item_description |-> "a",
               supplier_brand |-> "a", unit |-> "a", quantity |-> 2,
               rate_per_unit |-> 3, line_total |-> lt, category_total |-> NullDecimal]
              : lt \in {6, 1} }
      [] kind = "ProjectOverhead" ->
            { [overhead_type |-> "a", description |-> "a", basis |-> "a",
               percentage |-> 1, amount |-> 1] }

UpdateInputs(kind) ==
    CASE kind = "Project" ->
            { [location |-> "b"], [start_date |-> AsText(1)],
              [name |-> "b", start_date |-> 2, end_date |-> 3, total_project_cost |-> 5] }
      [] kind = "ProjectCost" ->
            { [quantity |-> 0], [quantity |-> 3],
              [supplier_brand |-> "b", rate_per_unit |-> 4, category_total |-> 5],
              [unit |-> "b"],
              [category_code |-> "b", category_name |-> "b", item_description |-> "b"] }
      [] kind = "ProjectOverhead" ->
            { [percentage |-> 5, amount |-> 5],
              [overhead_type |-> "b", description |-> "b"], [basis |-> "b"] }

\* costing_json of the decision-accept response: the project data, the cost
\* line items and the overheads
CostingJsons ==
    { [project |-> pd, cost_line_items |-> cl, overheads |-> ov] :
        pd \in { [name |-> "a"], [location |-> "b"],
                 [name |-> "a", start_date |-> AsText(1), total_project_cost |-> 5] },
        cl \in { << >>,
                 << [category_name |-> "a", item_description |-> "a", unit |-> "b"] >>,
                 << [category_name |-> "a", item_description |-> "a", unit |-> "b"],
                    [category_name |-> "a", item_description |-> "a",
                     quantity |-> NotANumber] >> },
        ov \in { << >>, << [overhead_type |-> "a", amount |-> 5] >> } }

\* external_version_number of PDFExtractionView.post: None, or int(version_id)
\* of the upload-doc response
NoExternalVersion == 0
ExternalVersions == {NoExternalVersion, 1, 3}

\* cost_line_items / overheads of an extraction payload: no item or one
ItemLists(kind) == {<< >>} \cup { <<item>> : item \in CreateInputs(kind) }

\* What the caller has put in _changed_by / _change_reason before save(): nothing
\* (the attributes are unset), or a free-text actor with a reason.  save() reads
\* the two attributes only when it builds the history row.
Origins ==
    { [changed_by |-> NoActor, change_reason |-> DefaultReason],
      [changed_by |-> "alert_system_u", change_reason |-> "r"] }

\* What ChatAcceptView._update_budget puts in _changed_by / _change_reason
ChatOrigin ==
    [changed_by |-> "chat_accept_u", change_reason |-> "Updated from chat accept API"]

\* approval of the request, final_action of the external service's answer
Decisions == {"accept", "reject"}

\* A CharField that is NULL or empty
NoText == ""

\* The costing part of an alert as the decision API stores it
AlertInputs ==
    { [category_name |-> "a", item |-> "a", new_supplier_brand |-> "b",
       new_rate_per_unit |-> 4, quantity |-> NullDecimal],
      [category_name |-> "a", item |-> "a", new_supplier_brand |-> NoText,
       new_rate_per_unit |-> NullDecimal, quantity |-> 3] }

\* project_costs._changed_by / _change_reason in get_and_mark_accepted_alerts
AlertOrigin(alert_id) ==
    [changed_by |-> "alert_system_u",
     change_reason |-> "Updated from accepted alert #" \o ToString(alert_id)]

\* A faulty variant of IsUserOrNone: changed_by takes any text.
IsUserOrText(actor) == TRUE

\* changed_by is ForeignKey(User): the model constructor accepts None or a
\* User instance and raises ValueError for anything else.
IsUserOrNone(actor) == actor = NoActor

---------------------------------------------------------------------------
VARIABLES
    rows,       \* rows[kind]: the entity table, a function from the ids of its rows
    nextId,     \* nextId[kind]: the next primary key of the entity table
    versions,   \* the rows of the three history tables
    nextVid,    \* the next primary key of a history row
    now,        \* the clock
    pc,         \* pc[p]: where handler p is
    inst,       \* inst[p]: the in-memory instance (self) of handler p
    old,        \* old[p]: old_instance as read by save()
    response,   \* the body of the last response a view returned
    alerts,     \* the Alert table, a function from alert_id
    call,       \* call[p]: the locals of the view handler p is running
    users,      \* the UserDetail table, a function from id
    chat,       \* the Session, Conversation and Messages tables
    seconds     \* timezone.now(), in seconds

vars == <<rows, nextId, versions, nextVid, now, pc, inst, old, response,
          alerts, call, users, chat, seconds>>

NoResponse == [view |-> "none"]

NoCall == [view |-> "none"]

\* The chat tables; next is the next primary key (one sequence stands for
\* the AutoFields of the three tables)
NoChat == [sessions |-> {}, conversations |-> {}, messages |-> {}, next |-> 1]

NoInst == [kind |-> "none"]
DoesNotExist == [version_number |-> 0]

Exists(kind, id) == id \in DOMAIN rows[kind]

\* The history rows of one entity (original_record = the entity)
VersionsIn(table, kind, id) ==
    { h \in table : h.kind = kind /\ h.original_record = id }

VersionsOf(kind, id) == VersionsIn(versions, kind, id)

\* A nullable foreign key to Projects is satisfied by NULL or by a stored project
ProjectFkOk(pid) == pid = NullProject \/ Exists("Project", pid)

Init ==
    /\ rows = [k \in Kinds |-> << >>]
    /\ nextId = [k \in Kinds |-> 1]
    /\ versions = {}
    /\ nextVid = 1
    /\ now = 0
    /\ pc = [p \in Procs |-> "idle"]
    /\ inst = [p \in Procs |-> NoInst]
    /\ old = [p \in Procs |-> DoesNotExist]
    /\ response = NoResponse
    /\ alerts = [rows |-> << >>, next |-> 1]
    /\ call = [p \in Procs |-> NoCall]
    /\ users = << >>
    /\ chat = NoChat
    /\ seconds = 0

\* The field validators of ProjectCostsSerializer and ProjectOverheadsSerializer:
\* quantity > 0, rate_per_unit > 0, 0 <= percentage <= 100, amount > 0.
\* The model classes declare no validator of their own.
is_valid(kind, vals) ==
    CASE kind = "Project" -> TRUE
      [] kind = "ProjectCost" -> vals["quantity"] > 0 /\ vals["rate_per_unit"] > 0
      [] kind = "ProjectOverhead" ->
            /\ vals["percentage"] >= 0 /\ vals["percentage"] <= 100
            /\ vals["amount"] > 0

---------------------------------------------------------------------------
(* save(), piece by piece.                                                 *)

\* ProjectCosts.save: if self.quantity and self.rate_per_unit:
\*                        self.line_total = quantity * rate_per_unit
LineTotal(kind, vals) ==
    IF /\ kind = "ProjectCost"
       /\ vals["quantity"] \notin {0, NullDecimal}
       /\ vals["rate_per_unit"] \notin {0, NullDecimal}
    THEN [vals EXCEPT !["line_total"] = vals["quantity"] * vals["rate_per_unit"]]
    ELSE vals

\* A faulty variant of has_changes: every save of a stored entity counts as a change.
has_changes_always(kind, old_instance, self) == TRUE

\* has_changes = any(getattr(old_instance, f) != getattr(self, f) for f in fields_to_track)
has_changes(kind, old_instance, self) ==
    \E f \in fields_to_track(kind) : old_instance.vals[f] # self.vals[f]

\* A faulty variant of VersionRecord: the snapshot is taken from self, the new state.
VersionRecordOfSelf(kind, id, old_instance, self, origin, vid, at) ==
    [ id |-> vid, kind |-> kind, original_record |-> id,
      project |-> self.project, vals |-> self.vals,
      version_number |-> old_instance.version_number,
      changed_by |-> origin.changed_by, change_reason |-> origin.change_reason,
      created_at |-> at ]

\* A faulty variant of VersionRecord: the snapshot is tagged with the incremented version.
VersionRecordTaggedNew(kind, id, old_instance, self, origin, vid, at) ==
    [ id |-> vid, kind |-> kind, original_record |-> id,
      project |-> old_instance.project, vals |-> old_instance.vals,
      version_number |-> old_instance.version_number + 1,
      changed_by |-> origin.changed_by, change_reason |-> origin.change_reason,
      created_at |-> at ]

\* ProjectVersion.objects.create(original_record=old_instance, name=old_instance.name,
\*     ..., version_number=old_instance.version_number, changed_by=..., change_reason=...)
VersionRecord(kind, id, old_instance, self, origin, vid, at) ==
    [ id |-> vid, kind |-> kind, original_record |-> id,
      project |-> old_instance.project, vals |-> old_instance.vals,
      version_number |-> old_instance.version_number,
      changed_by |-> origin.changed_by, change_reason |-> origin.change_reason,
      created_at |-> at ]

\* A faulty variant of NextVersion: the counter is not advanced.
NextVersionSame(old_instance) == old_instance.version_number

\* self.version_number = old_instance.version_number + 1
NextVersion(old_instance) == old_instance.version_number + 1

\* A faulty variant of InsertVersion: the insert replaces the entity's earlier history.
InsertVersionReplacing(table, h) ==
    { g \in table : ~(g.kind = h.kind /\ g.original_record = h.original_record) } \cup {h}

\* A faulty variant of InsertVersion: the earlier rows with the same
\* original_record id go, whichever history table they are in.
InsertVersionSharedIds(table, h) ==
    { g \in table : g.original_record # h.original_record } \cup {h}

\* objects.create(...) on a history table: one more row, the others untouched
InsertVersion(table, h) == table \cup {h}

\* to_python / get_prep_value of a DecimalField or DateField: a value that
\* arrived as text is stored as the decimal or date it spells
to_python(f, value) ==
    IF f \in ParsedFields /\ value >= TextOffset THEN value - TextOffset ELSE value

\* The entity row super().save() writes from self
RowOf(self) ==
    [project |-> self.project, version_number |-> self.version_number,
     vals |-> [f \in DOMAIN self.vals |-> to_python(f, self.vals[f])]]

Put(table, id, row) ==
    [i \in DOMAIN table \cup {id} |-> IF i = id THEN row ELSE table[i]]

Remove(table, ids) == [i \in DOMAIN table \ ids |-> table[i]]

ApplyUpdate(vals, update_data) ==
    [f \in DOMAIN vals |-> IF f \in DOMAIN update_data THEN update_data[f] ELSE vals[f]]


---------------------------------------------------------------------------
(* The operations.                                                         *)

Quiet == \A p \in Procs : pc[p] = "idle"
Alone(p) == \A q \in Procs \ {p} : pc[q] = "idle"

\* Session, Conversation and assistant message created for one user and project
with_session(c, project_id, user_id) ==
    [sessions |-> c.sessions \cup
                    {[session_id |-> c.next, project_id |-> project_id, user_id |-> user_id]},
     conversations |-> c.conversations \cup
                    {[conversation_id |-> c.next, session |-> c.next,
                      project_id |-> project_id]},
     messages |-> c.messages \cup
                    {[message_id |-> c.next, session |-> c.next, conversation |-> c.next,
                      message_type |-> "assistant", costing |-> FALSE,
                      is_hide |-> FALSE, is_accept |-> FALSE]},
     next |-> c.next + 1]

RECURSIVE add_sessions(_, _, _)
add_sessions(c, project_id, user_ids) ==
    IF user_ids = {} THEN c
    ELSE LET u == CHOOSE i \in user_ids : \A j \in user_ids : i <= j
         IN add_sessions(with_session(c, project_id, u), project_id, user_ids \ {u})

\* The post_save receiver of Projects: every verified and active user without
\* a session for the new project gets a session, a conversation and a message.
sessions_for_project(c, project_id) ==
    add_sessions(c, project_id,
                 { u \in DOMAIN users :
                     /\ users[u].is_verified /\ users[u].is_active
                     /\ ~\E x \in c.sessions :
                           x.user_id = u /\ x.project_id = project_id })

create_sessions_for_all_users_on_project_creation(project_id) ==
    sessions_for_project(chat, project_id)

\* on_delete=CASCADE from Projects to Session, Conversation, Messages
chat_without_project(project_id) ==
    LET gone == { x.session_id : x \in { y \in chat.sessions : y.project_id = project_id } }
    IN [chat EXCEPT !.sessions = { x \in @ : x.session_id \notin gone },
                    !.conversations = { x \in @ : x.session \notin gone },
                    !.messages = { x \in @ : x.session \notin gone }]

\* Model.objects.create(**fields): save() on an instance without a primary key.
\* line_total is computed, the versioning block is skipped (self.pk is None), the
\* row is inserted with the next id and the default version_number.  A new
\* project fires the post_save receiver.
Create(kind, fields, pid) ==
    /\ now < MaxClock
    /\ nextId[kind] <= MaxRows
    /\ ProjectFkOk(pid)
    /\ kind = "Project" => pid = NullProject
    /\ rows' = [rows EXCEPT ![kind] =
                  Put(rows[kind], nextId[kind],
                      [project |-> pid, version_number |-> DefaultVersion,
                       vals |-> LineTotal(kind, fields)])]
    /\ nextId' = [nextId EXCEPT ![kind] = nextId[kind] + 1]
    /\ now' = now + 1
    /\ chat' = IF kind = "Project"
               THEN create_sessions_for_all_users_on_project_creation(nextId[kind])
               ELSE chat
    /\ UNCHANGED <<alerts, call, users, seconds, response, versions, nextVid, pc, inst, old>>

\* A faulty variant of Delete: the row goes, nothing cascades.
DeleteRowOnly(kind, id) ==
    /\ now < MaxClock
    /\ Exists(kind, id)
    /\ rows' = [rows EXCEPT ![kind] = Remove(rows[kind], {id})]
    /\ now' = now + 1
    /\ UNCHANGED <<alerts, call, users, chat, seconds, response, nextId, versions, nextVid, pc, inst, old>>

\* instance.delete(): the row goes, and on_delete=CASCADE takes the rows that
\* refer to it: a project's costs and overheads, and every history row whose
\* original_record or project is deleted.
Delete(kind, id) ==
    /\ now < MaxClock
    /\ Exists(kind, id)
    /\ LET gone(k) ==
              IF k = kind THEN {id}
              ELSE IF kind = "Project"
                   THEN { i \in DOMAIN rows[k] : rows[k][i].project = id }
                   ELSE {}
       IN /\ rows' = [k \in Kinds |-> Remove(rows[k], gone(k))]
          /\ versions' =
                { h \in versions :
                     /\ h.original_record \notin gone(h.kind)
                     /\ ~(kind = "Project" /\ h.kind # "Project" /\ h.project = id) }
    /\ now' = now + 1
    /\ alerts' = IF kind = "Project"
                 THEN [alerts EXCEPT !.rows =
                          Remove(@, { a \in DOMAIN @ : @[a].project_id = id })]
                 ELSE alerts
    /\ chat' = IF kind = "Project" THEN chat_without_project(id) ELSE chat
    /\ UNCHANGED <<call, users, seconds, response, nextId, nextVid, pc, inst, old>>

\* A faulty variant of Import: the rows already stored are moved to the new project.
ImportRebinding(fields, cost_items, overhead_items, external_version_number) ==
    LET pid == nextId["Project"]
        vn == IF external_version_number # NoExternalVersion
              THEN external_version_number ELSE DefaultVersion
        NewRows(kind, items) ==
            [i \in DOMAIN rows[kind] \cup (nextId[kind] .. (nextId[kind] + Len(items) - 1)) |->
                IF i \in DOMAIN rows[kind] THEN [rows[kind][i] EXCEPT !.project = pid]
                ELSE [project |-> pid, version_number |-> vn,
                      vals |-> LineTotal(kind, items[i - nextId[kind] + 1])]]
    IN /\ now + 1 + Len(cost_items) + Len(overhead_items) <= MaxClock
       /\ pid <= MaxRows
       /\ nextId["ProjectCost"] + Len(cost_items) <= MaxRows + 1
       /\ nextId["ProjectOverhead"] + Len(overhead_items) <= MaxRows + 1
       /\ rows' = [kind \in Kinds |->
                     CASE kind = "Project" ->
                            Put(rows[kind], pid,
                                [project |-> NullProject, version_number |-> vn,
                                 vals |-> fields])
                       [] kind = "ProjectCost" -> NewRows(kind, cost_items)
                       [] kind = "ProjectOverhead" -> NewRows(kind, overhead_items)]
       /\ nextId' = [nextId EXCEPT !["Project"] = pid + 1,
                                   !["ProjectCost"] = @ + Len(cost_items),
                                   !["ProjectOverhead"] = @ + Len(overhead_items)]
       /\ now' = now + 1 + Len(cost_items) + Len(overhead_items)
       /\ UNCHANGED <<alerts, call, users, chat, seconds, response, versions, nextVid, pc, inst, old>>

\* PDFExtractionView.post, from transaction.atomic() on: one new project, then
\* one row per cost item and per overhead item, each bound to the new project.
\* Every create call carries version_number = external_version_number when the
\* upload-doc response had a version_id.  The inserts commit together.
Import(fields, cost_items, overhead_items, external_version_number) ==
    LET pid == nextId["Project"]
        vn == IF external_version_number # NoExternalVersion
              THEN external_version_number ELSE DefaultVersion
        NewRows(kind, items) ==
            [i \in DOMAIN rows[kind] \cup (nextId[kind] .. (nextId[kind] + Len(items) - 1)) |->
                IF i \in DOMAIN rows[kind] THEN rows[kind][i]
                ELSE [project |-> pid, version_number |-> vn,
                      vals |-> LineTotal(kind, items[i - nextId[kind] + 1])]]
    IN /\ now + 1 + Len(cost_items) + Len(overhead_items) <= MaxClock
       /\ pid <= MaxRows
       /\ nextId["ProjectCost"] + Len(cost_items) <= MaxRows + 1
       /\ nextId["ProjectOverhead"] + Len(overhead_items) <= MaxRows + 1
       /\ rows' = [kind \in Kinds |->
                     CASE kind = "Project" ->
                            Put(rows[kind], pid,
                                [project |-> NullProject, version_number |-> vn,
                                 vals |-> fields])
                       [] kind = "ProjectCost" -> NewRows(kind, cost_items)
                       [] kind = "ProjectOverhead" -> NewRows(kind, overhead_items)]
       /\ nextId' = [nextId EXCEPT !["Project"] = pid + 1,
                                   !["ProjectCost"] = @ + Len(cost_items),
                                   !["ProjectOverhead"] = @ + Len(overhead_items)]
       /\ now' = now + 1 + Len(cost_items) + Len(overhead_items)
       /\ chat' = create_sessions_for_all_users_on_project_creation(pid)
       /\ UNCHANGED <<alerts, call, users, seconds, response, versions, nextVid, pc, inst, old>>

\* A handler loads the row (objects.get / filter(...).first()), assigns the
\* supplied values to the instance and calls save().  supplied remembers which
\* attributes the handler assigned; save() itself does not look at it.
Begin(p, kind, id, update_data) ==
    /\ pc[p] = "idle"
    /\ now < MaxClock
    /\ Exists(kind, id)
    /\ LET loaded == rows[kind][id]
       IN inst' = [inst EXCEPT ![p] =
                     [kind |-> kind, id |-> id, project |-> loaded.project,
                      version_number |-> loaded.version_number,
                      vals |-> ApplyUpdate(loaded.vals, update_data),
                      supplied |-> DOMAIN update_data]]
    /\ pc' = [pc EXCEPT ![p] = "save"]
    /\ UNCHANGED <<alerts, call, users, chat, seconds, response, rows, nextId, versions, nextVid, now, old>>

\* save(): line_total, then old_instance = Model.objects.get(pk=self.pk) and
\* has_changes; DoesNotExist is swallowed and leads straight to super().save().
SaveRead(p) ==
    /\ pc[p] = "save"
    /\ LET self == inst[p]
           vals == LineTotal(self.kind, self.vals)
       IN /\ inst' = [inst EXCEPT ![p].vals = vals]
          /\ IF Exists(self.kind, self.id)
             THEN /\ old' = [old EXCEPT ![p] = rows[self.kind][self.id]]
                  /\ pc' = [pc EXCEPT ![p] =
                              IF has_changes(self.kind, rows[self.kind][self.id],
                                             [self EXCEPT !.vals = vals])
                              THEN "history" ELSE "write"]
             ELSE /\ old' = [old EXCEPT ![p] = DoesNotExist]
                  /\ pc' = [pc EXCEPT ![p] = "write"]
    /\ UNCHANGED <<alerts, call, users, chat, seconds, response, rows, nextId, versions, nextVid, now>>

\* save(): the history row is created from old_instance and the version
\* number is advanced on self.  A changed_by that is neither None nor a User
\* raises ValueError in the constructor, a vanished original_record raises
\* IntegrityError: either way save() is left with nothing written by this step.
SaveHistory(p, origin) ==
    /\ pc[p] = "history"
    /\ LET self == inst[p]
       IN IF IsUserOrNone(origin.changed_by) /\ Exists(self.kind, self.id)
          THEN /\ now < MaxClock
               /\ versions' = InsertVersion(versions,
                                 VersionRecord(self.kind, self.id, old[p], self,
                                               origin, nextVid, now + 1))
               /\ nextVid' = nextVid + 1
               /\ now' = now + 1
               /\ inst' = [inst EXCEPT ![p].version_number = NextVersion(old[p])]
               /\ pc' = [pc EXCEPT ![p] = "write"]
               /\ UNCHANGED <<alerts, call, users, chat, seconds, response, rows, nextId, old>>
          ELSE /\ pc' = [pc EXCEPT ![p] = "idle"]
               /\ inst' = [inst EXCEPT ![p] = NoInst]
               /\ old' = [old EXCEPT ![p] = DoesNotExist]
               /\ UNCHANGED <<alerts, call, users, chat, seconds, response, rows, nextId, versions, nextVid, now>>

\* super().save(): UPDATE of every column from self, version_number included;
\* when no row has the primary key any more the ORM inserts one.  A project
\* that no longer exists raises IntegrityError.
SaveWrite(p) ==
    /\ pc[p] = "write"
    /\ LET self == inst[p]
       IN IF ProjectFkOk(self.project)
          THEN /\ now < MaxClock
               /\ rows' = [rows EXCEPT ![self.kind] = Put(rows[self.kind], self.id, RowOf(self))]
               /\ now' = now + 1
          ELSE UNCHANGED <<rows, now>>
    /\ pc' = [pc EXCEPT ![p] = "idle"]
    /\ inst' = [inst EXCEPT ![p] = NoInst]
    /\ old' = [old EXCEPT ![p] = DoesNotExist]
    /\ UNCHANGED <<alerts, call, users, chat, seconds, response, nextId, versions, nextVid>>

\* A faulty variant of updates_budget: the user's approval decides.
updates_budget_on_approval(approval, final_action) == approval = "accept"

\* ChatAcceptView.post, step 9: if final_action == 'accept' and updated_costing_json
updates_budget(approval, final_action) == final_action = "accept"

\* ChatAcceptView.post with a costing_json that names one entity: response
\* keeps the request's approval and the external service's final_action, and
\* when the latter says accept _update_budget loads the entity, assigns the values and saves.
ChatAcceptPost(p, approval, final_action, kind, id, update_data) ==
    /\ pc[p] = "idle"
    /\ now < MaxClock
    /\ Exists(kind, id)
    /\ response' = [view |-> "chat_accept", approval |-> approval,
                    final_action |-> final_action]
    /\ IF updates_budget(approval, final_action)
       THEN /\ inst' = [inst EXCEPT ![p] =
                          [kind |-> kind, id |-> id, project |-> rows[kind][id].project,
                           version_number |-> rows[kind][id].version_number,
                           vals |-> ApplyUpdate(rows[kind][id].vals, update_data),
                           supplied |-> DOMAIN update_data]]
            /\ pc' = [pc EXCEPT ![p] = "save"]
       ELSE UNCHANGED <<inst, pc>>
    /\ UNCHANGED <<alerts, call, users, chat, seconds, rows, nextId, versions, nextVid, now, old>>

---------------------------------------------------------------------------
(* ChatAcceptView.post at the granularity of database transactions: the    *)
(* message is saved and committed by itself, _update_budget runs inside    *)
(* one transaction.atomic() block.                                         *)

\* The tables a transaction works on; raised: an exception left the block
Database ==
    [rows |-> rows, nextId |-> nextId, versions |-> versions, nextVid |-> nextVid,
     now |-> now, chat |-> chat, raised |-> FALSE]

raise(db) == [db EXCEPT !.raised = TRUE]

\* Model.save() of a stored instance, run to its end inside the transaction
save(db, kind, id, vals, origin) ==
    LET old_instance == db.rows[kind][id]
        self == [kind |-> kind, id |-> id, project |-> old_instance.project,
                 version_number |-> old_instance.version_number,
                 vals |-> LineTotal(kind, vals)]
    IN IF ~has_changes(kind, old_instance, self)
       THEN [db EXCEPT !.rows[kind] = Put(@, id, RowOf(self)),
                       !.now = @ + 1]
       ELSE IF ~IsUserOrNone(origin.changed_by)
       THEN raise(db)
       ELSE [db EXCEPT
               !.versions = InsertVersion(@, VersionRecord(kind, id, old_instance, self,
                                                          origin, db.nextVid, db.now + 1)),
               !.nextVid = @ + 1,
               !.rows[kind] = Put(@, id,
                                  RowOf([self EXCEPT !.version_number =
                                                        NextVersion(old_instance)])),
               !.now = @ + 2]

\* get_or_create(...) that finds no row: objects.create(**params); a new
\* project fires the post_save receiver inside the same transaction
create(db, kind, project, fields) ==
    LET id == db.nextId[kind]
    IN [db EXCEPT !.rows[kind] = Put(@, id, [project |-> project,
                                              version_number |-> DefaultVersion,
                                              vals |-> RowOf([project |-> project,
                                                       version_number |-> DefaultVersion,
                                                       vals |-> LineTotal(kind, fields)]).vals]),
                  !.nextId[kind] = @ + 1,
                  !.now = @ + 1,
                  !.chat = IF kind = "Project" THEN sessions_for_project(@, id) ELSE @]

\* The columns _update_budget assigns on a stored entity
chat_assigned(kind) ==
    CASE kind = "Project" -> {"location", "start_date", "end_date", "total_project_cost"}
      [] kind = "ProjectCost" ->
            {"supplier_brand", "unit", "quantity", "rate_per_unit", "category_total"}
      [] kind = "ProjectOverhead" -> {"description", "basis", "percentage", "amount"}

\* The lookup keys of get_or_create
lookup_fields(kind) ==
    CASE kind = "Project" -> {"name"}
      [] kind = "ProjectCost" -> {"category_name", "item_description"}
      [] kind = "ProjectOverhead" -> {"overhead_type"}

\* item.get(f) for the defaults of get_or_create: None when the key is missing
defaults(kind, item) ==
    [f \in Fields(kind) |->
        IF f \in DOMAIN item THEN item[f]
        ELSE IF f \in ParsedFields THEN NullDecimal ELSE NoText]

\* Projects.total_project_cost is not nullable: a project created from data
\* without a total_cost (or with 0, which the defaults turn into None) raises
\* IntegrityError
raises_IntegrityError(kind, item) ==
    /\ kind = "Project"
    /\ "total_project_cost" \in DOMAIN item => item["total_project_cost"] = 0

\* Decimal(str(...)) is evaluated for every decimal the item carries, in the
\* defaults before the lookup and in the assignments after it
raises_InvalidOperation(item) ==
    \E f \in DOMAIN item \cap ParsedFields : item[f] = NotANumber

\* get_or_create, and for a row that was found the assignments and save()
update_or_create(db, kind, project, item) ==
    LET found == { id \in DOMAIN db.rows[kind] :
                     /\ kind # "Project" => db.rows[kind][id].project = project
                     /\ \A f \in lookup_fields(kind) : db.rows[kind][id].vals[f] = item[f] }
    IN IF db.raised THEN db
       ELSE IF raises_InvalidOperation(item) \/ Cardinality(found) > 1 THEN raise(db)
       ELSE IF found = {}
       THEN IF raises_IntegrityError(kind, item) THEN raise(db)
            ELSE create(db, kind, project, defaults(kind, item))
       ELSE LET id == CHOOSE i \in found : TRUE
                update_data == [f \in DOMAIN item \cap chat_assigned(kind) |-> item[f]]
            IN save(db, kind, id, ApplyUpdate(db.rows[kind][id].vals, update_data),
                    ChatOrigin)

RECURSIVE update_items(_, _, _, _)
update_items(db, kind, project, items) ==
    IF items = << >> THEN db
    ELSE update_items(update_or_create(db, kind, project, Head(items)),
                      kind, project, Tail(items))

\* The body of the with transaction.atomic() block of _update_budget
update_budget_body(db, costing_json, project_uuid) ==
    LET db1 == IF project_uuid \in DOMAIN db.rows["Project"]
               THEN save(db, "Project", project_uuid,
                         ApplyUpdate(db.rows["Project"][project_uuid].vals,
                                     [f \in DOMAIN costing_json.project
                                            \cap chat_assigned("Project") |->
                                        costing_json.project[f]]),
                         ChatOrigin)
               ELSE update_or_create(db, "Project", NullProject, costing_json.project)
        project == IF project_uuid \in DOMAIN db.rows["Project"] THEN project_uuid
                   ELSE IF \E id \in DOMAIN db.rows["Project"] :
                             db.rows["Project"][id].vals["name"] = costing_json.project["name"]
                   THEN CHOOSE id \in DOMAIN db.rows["Project"] :
                             db.rows["Project"][id].vals["name"] = costing_json.project["name"]
                   ELSE db.nextId["Project"]
        db2 == update_items(db1, "ProjectCost", project, costing_json.cost_line_items)
    IN IF "name" \notin DOMAIN costing_json.project THEN db
       ELSE update_items(db2, "ProjectOverhead", project, costing_json.overheads)

\* A faulty variant of atomic: what the block wrote before the exception stays.
atomic_per_entity(before, after) == after

\* with transaction.atomic(): the block's writes are committed together, or
\* rolled back together when an exception leaves the block
atomic(before, after) ==
    IF after.raised THEN [before EXCEPT !.raised = TRUE]
    ELSE after

_update_budget(db, costing_json, project_uuid) ==
    atomic(db, update_budget_body(db, costing_json, project_uuid))

\* save_message_to_db: an assistant message whose metadata carries the costing
\* the chatbot proposed
SaveMessage(conversation_id) ==
    /\ chat.next <= MaxChat
    /\ \E c \in chat.conversations :
         /\ c.conversation_id = conversation_id
         /\ chat' = [chat EXCEPT
                       !.messages = @ \cup
                          {[message_id |-> chat.next, session |-> c.session,
                            conversation |-> conversation_id,
                            message_type |-> "assistant", costing |-> TRUE,
                            is_hide |-> FALSE, is_accept |-> FALSE]},
                       !.next = @ + 1]
    /\ UNCHANGED <<rows, nextId, versions, nextVid, now, pc, inst, old, response,
                   alerts, call, users, seconds>>

\* ChatAcceptView.post, transaction by transaction.  Step 7 saves the message
\* (committed at once), step 8 stores the answer as a new assistant message,
\* step 9 runs _update_budget; an exception from it is answered with 500.
\* written in the response is not part of the body: it records whether the
\* budget transaction had changed an entity table when it ended.
ChatAcceptTransaction(message_id, approval, final_action, api_answer, costing_json, project_uuid) ==
    /\ Quiet
    /\ LET found == { m \in chat.messages : m.message_id = message_id }
           message == CHOOSE m \in found : TRUE
           accepted == [message EXCEPT !.is_hide = TRUE,
                                       !.is_accept = (final_action = "accept")]
           step7 == [chat EXCEPT !.messages = (@ \ {message}) \cup {accepted}]
           step8 == IF api_answer = NoText THEN step7
                    ELSE [step7 EXCEPT
                            !.messages = @ \cup
                               {[message_id |-> chat.next, session |-> message.session,
                                 conversation |-> message.conversation,
                                 message_type |-> "assistant", costing |-> FALSE,
                                 is_hide |-> FALSE, is_accept |-> FALSE]},
                            !.next = @ + 1]
           db == [Database EXCEPT !.chat = step8]
           done == IF updates_budget(approval, final_action)
                   THEN _update_budget(db, costing_json, project_uuid)
                   ELSE db
           body == update_budget_body(db, costing_json, project_uuid)
           written == /\ updates_budget(approval, final_action)
                      /\ body.rows # rows
       IN IF found = {} \/ ~message.costing
          THEN /\ response' = [view |-> "chat_accept_transaction",
                               status |-> IF found = {} THEN 404 ELSE 400,
                               message_id |-> message_id, final_action |-> final_action,
                               written |-> FALSE]
               /\ UNCHANGED <<rows, nextId, versions, nextVid, now, chat>>
          ELSE /\ api_answer # NoText => chat.next <= MaxChat
               /\ done.now <= MaxClock
               /\ \A k \in Kinds : done.nextId[k] <= MaxRows + 1
               /\ rows' = done.rows
               /\ nextId' = done.nextId
               /\ versions' = done.versions
               /\ nextVid' = done.nextVid
               /\ now' = done.now
               /\ chat' = done.chat
               /\ response' = [view |-> "chat_accept_transaction",
                               status |-> IF done.raised THEN 500 ELSE 200,
                               message_id |-> message_id, final_action |-> final_action,
                               written |-> written]
    /\ UNCHANGED <<pc, inst, old, alerts, call, users, seconds>>

\* Alert.objects.create(...) of the decision API: is_accept and is_sent start False
CreateAlert(project_id, fields) ==
    /\ alerts.next <= MaxAlerts
    /\ ProjectFkOk(project_id)
    /\ alerts' = [rows |-> Put(alerts.rows, alerts.next,
                              [alert_id |-> alerts.next, project_id |-> project_id,
                               category_name |-> fields.category_name,
                               item |-> fields.item,
                               new_supplier_brand |-> fields.new_supplier_brand,
                               new_rate_per_unit |-> fields.new_rate_per_unit,
                               quantity |-> fields.quantity,
                               is_accept |-> FALSE, is_sent |-> FALSE]),
                   next |-> alerts.next + 1]
    /\ UNCHANGED <<rows, nextId, versions, nextVid, now, pc, inst, old, response,
                   call, users, chat, seconds>>

\* update_alert_status: the alert is loaded, is_accept is set from the request
\* and the instance is saved.
UpdateAlertStatus(alert_id, is_accept) ==
    /\ alert_id \in DOMAIN alerts.rows
    /\ alerts' = [alerts EXCEPT !.rows[alert_id].is_accept = is_accept]
    /\ UNCHANGED <<rows, nextId, versions, nextVid, now, pc, inst, old, response,
                   call, users, chat, seconds>>

\* order_by('-created_at') of a set of alert ids
RECURSIVE order_by_created_at_desc(_)
order_by_created_at_desc(ids) ==
    IF ids = {} THEN << >>
    ELSE LET newest == CHOOSE i \in ids : \A j \in ids : j <= i
         IN <<newest>> \o order_by_created_at_desc(ids \ {newest})

\* Alert.objects.filter(is_sent=False, is_accept=True)
accepted_unsent(table) ==
    { a \in DOMAIN table : table[a].is_accept /\ ~table[a].is_sent }

\* get_and_mark_accepted_alerts: if not alerts.exists() the view returns; the
\* query of exists() leaves the queryset unevaluated.
AlertsExists(p) ==
    /\ pc[p] = "idle" /\ call[p] = NoCall
    /\ accepted_unsent(alerts.rows) # {}
    /\ call' = [call EXCEPT ![p] =
                  [view |-> "accepted_alerts", cache |-> << >>, i |-> 0, alert |-> 0]]
    /\ UNCHANGED <<rows, nextId, versions, nextVid, now, pc, inst, old, response,
                   alerts, users, chat, seconds>>

\* get_and_mark_accepted_alerts: AlertSerializer(alerts, many=True).data
\* evaluates the queryset, and its rows stay in the queryset's result cache.
AlertsEvaluate(p) ==
    /\ call[p].view = "accepted_alerts"
    /\ call[p].i = 0
    /\ LET ids == order_by_created_at_desc(accepted_unsent(alerts.rows))
       IN call' = [call EXCEPT ![p].cache = [i \in DOMAIN ids |-> alerts.rows[ids[i]]],
                               ![p].i = 1]
    /\ UNCHANGED <<rows, nextId, versions, nextVid, now, pc, inst, old, response,
                   alerts, users, chat, seconds>>

\* .first() of a ProjectCosts queryset (Meta.ordering = ['-created_at']); 0 for None
first_by_created_at(ids) == IF ids = {} THEN 0 ELSE CHOOSE i \in ids : \A j \in ids : j <= i

\* The three matching strategies of get_and_mark_accepted_alerts
matching_cost(alert) ==
    LET costs == rows["ProjectCost"]
        exact == { i \in DOMAIN costs :
                     /\ costs[i].vals["category_name"] = alert.category_name
                     /\ costs[i].vals["item_description"] = alert.item }
        by_item == { i \in DOMAIN costs : costs[i].vals["item_description"] = alert.item }
    IN IF exact # {} THEN first_by_created_at(exact) ELSE first_by_created_at(by_item)

\* The values the loop assigns to project_costs: a new value that is set
\* (truthy) and differs from the loaded one.
alert_changes(alert, vals) ==
    LET candidates == [supplier_brand |-> alert.new_supplier_brand,
                       rate_per_unit |-> alert.new_rate_per_unit,
                       quantity |-> alert.quantity]
        truthy(f) == IF f = "supplier_brand" THEN candidates[f] # NoText
                     ELSE candidates[f] \notin {NullDecimal, 0}
        changed == { f \in DOMAIN candidates : truthy(f) /\ candidates[f] # vals[f] }
    IN [f \in changed |-> candidates[f]]

\* get_and_mark_accepted_alerts, one turn of the loop over the cached alerts:
\* the matching cost is loaded and, when changes_made is not empty, saved.
AlertsExamine(p) ==
    /\ pc[p] = "idle"
    /\ call[p].view = "accepted_alerts"
    /\ call[p].i >= 1
    /\ call[p].i <= Len(call[p].cache)
    /\ LET alert == call[p].cache[call[p].i]
           id == IF alert.category_name = NoText \/ alert.item = NoText
                 THEN 0 ELSE matching_cost(alert)
           changes == IF id = 0 THEN << >>
                      ELSE alert_changes(alert, rows["ProjectCost"][id].vals)
       IN /\ call' = [call EXCEPT ![p].i = @ + 1, ![p].alert = alert.alert_id]
          /\ IF id # 0 /\ DOMAIN changes # {}
             THEN /\ inst' = [inst EXCEPT ![p] =
                                [kind |-> "ProjectCost", id |-> id,
                                 project |-> rows["ProjectCost"][id].project,
                                 version_number |-> rows["ProjectCost"][id].version_number,
                                 vals |-> ApplyUpdate(rows["ProjectCost"][id].vals, changes),
                                 supplied |-> DOMAIN changes]]
                  /\ pc' = [pc EXCEPT ![p] = "save"]
             ELSE UNCHANGED <<inst, pc>>
    /\ UNCHANGED <<rows, nextId, versions, nextVid, now, old, response,
                   alerts, users, chat, seconds>>

\* get_and_mark_accepted_alerts, after the loop: alerts.update(is_sent=True)
\* is a new UPDATE ... WHERE is_sent = False AND is_accept = True.
AlertsMarkSent(p) ==
    /\ pc[p] = "idle"
    /\ call[p].view = "accepted_alerts"
    /\ call[p].i > Len(call[p].cache)
    /\ alerts' = [alerts EXCEPT !.rows =
                    [a \in DOMAIN @ |->
                        IF a \in accepted_unsent(@) THEN [@[a] EXCEPT !.is_sent = TRUE]
                        ELSE @[a]]]
    /\ call' = [call EXCEPT ![p] = NoCall]
    /\ UNCHANGED <<rows, nextId, versions, nextVid, now, pc, inst, old, response,
                   users, chat, seconds>>

\* The actor and reason the handler p put on the instance it saves
OriginOf(p) ==
    IF call[p].view = "accepted_alerts" THEN AlertOrigin(call[p].alert)
    ELSE [changed_by |-> NoActor, change_reason |-> DefaultReason]

\* UserDetail.objects.filter(email=value)
users_with_email(email) == { u \in DOMAIN users : users[u].email = email }

\* user_detail_register_view, serializer.is_valid(): validate_email answers
\* 400 when a UserDetail has the email.
RegisterValidate(p, email, password) ==
    /\ pc[p] = "idle" /\ call[p] = NoCall
    /\ IF users_with_email(email) # {}
       THEN /\ response' = [view |-> "register", status |-> 400, email |-> email]
            /\ UNCHANGED call
       ELSE /\ call' = [call EXCEPT ![p] = [view |-> "register", email |-> email,
                                             password |-> password]]
            /\ UNCHANGED response
    /\ UNCHANGED <<rows, nextId, versions, nextVid, now, pc, inst, old,
                   alerts, users, chat, seconds>>

\* A faulty variant of RegisterSave: the email column is not unique.
RegisterSaveNotUnique(p) ==
    /\ call[p].view = "register"
    /\ Len(users) < MaxUsers
    /\ \E otp \in Otps :
          users' = Append(users, [email |-> call[p].email, password |-> call[p].password,
                                  otp |-> otp, otp_created_at |-> seconds,
                                  is_verified |-> FALSE, is_active |-> FALSE])
    /\ response' = [view |-> "register", status |-> 201, email |-> call[p].email]
    /\ call' = [call EXCEPT ![p] = NoCall]
    /\ UNCHANGED <<rows, nextId, versions, nextVid, now, pc, inst, old,
                   alerts, chat, seconds>>

\* user_detail_register_view, serializer.save(): create() builds the
\* UserDetail, generate_otp() and save().  email is unique=True: the INSERT of
\* a second row with the email raises IntegrityError, which the view does not
\* catch.  Nothing else is written.
RegisterSave(p) ==
    /\ call[p].view = "register"
    /\ IF users_with_email(call[p].email) # {}
       THEN /\ response' = [view |-> "register", status |-> 500, email |-> call[p].email]
            /\ UNCHANGED users
       ELSE /\ Len(users) < MaxUsers
            /\ \E otp \in Otps :
                  users' = Append(users, [email |-> call[p].email,
                                          password |-> call[p].password,
                                          otp |-> otp, otp_created_at |-> seconds,
                                          is_verified |-> FALSE, is_active |-> FALSE])
            /\ response' = [view |-> "register", status |-> 201, email |-> call[p].email]
    /\ call' = [call EXCEPT ![p] = NoCall]
    /\ UNCHANGED <<rows, nextId, versions, nextVid, now, pc, inst, old,
                   alerts, chat, seconds>>

\* A faulty variant of is_otp_valid: the OTP never expires.
is_otp_valid_forever(user_detail) == user_detail.otp # NoText

\* UserDetail.is_otp_valid
is_otp_valid(user_detail) ==
    /\ user_detail.otp # NoText
    /\ seconds <= user_detail.otp_created_at + OtpLifetime

\* verify_otp_view: OTPVerificationSerializer.validate gets the user by email
\* and calls verify_otp, which clears an expired OTP, and on a valid and equal
\* OTP sets is_verified and is_active and clears the OTP.
VerifyOtp(email, provided_otp) ==
    /\ IF users_with_email(email) = {}
       THEN /\ response' = [view |-> "verify_otp", status |-> 400, email |-> email,
                            otp |-> provided_otp]
            /\ UNCHANGED users
       ELSE LET u == CHOOSE u \in users_with_email(email) : TRUE
            IN IF ~is_otp_valid(users[u])
               THEN /\ users' = [users EXCEPT ![u].otp = NoText, ![u].otp_created_at = 0]
                    /\ response' = [view |-> "verify_otp", status |-> 400, email |-> email,
                                    otp |-> provided_otp]
               ELSE IF users[u].otp = provided_otp
               THEN /\ users' = [users EXCEPT ![u].is_verified = TRUE, ![u].is_active = TRUE,
                                              ![u].otp = NoText, ![u].otp_created_at = 0]
                    /\ response' = [view |-> "verify_otp", status |-> 200, email |-> email,
                                    otp |-> provided_otp]
               ELSE /\ response' = [view |-> "verify_otp", status |-> 400, email |-> email,
                                    otp |-> provided_otp]
                    /\ UNCHANGED users
    /\ UNCHANGED <<rows, nextId, versions, nextVid, now, pc, inst, old,
                   alerts, call, chat, seconds>>

\* resend_otp_view: a user that is not verified gets a new OTP
ResendOtp(email) ==
    /\ users_with_email(email) # {}
    /\ LET u == CHOOSE u \in users_with_email(email) : TRUE
       IN IF users[u].is_verified
          THEN /\ response' = [view |-> "resend_otp", status |-> 400, email |-> email]
               /\ UNCHANGED users
          ELSE /\ \E otp \in Otps :
                     users' = [users EXCEPT ![u].otp = otp, ![u].otp_created_at = seconds]
               /\ response' = [view |-> "resend_otp", status |-> 200, email |-> email]
    /\ UNCHANGED <<rows, nextId, versions, nextVid, now, pc, inst, old,
                   alerts, call, chat, seconds>>

\* user_detail_login_view: UserDetailLoginSerializer.validate rejects an
\* unknown email, a wrong password and a user that is not verified.
Login(email, password) ==
    /\ response' = [view |-> "login", email |-> email,
                    status |-> IF \E u \in users_with_email(email) :
                                     users[u].password = password /\ users[u].is_verified
                               THEN 200 ELSE 400]
    /\ UNCHANGED <<rows, nextId, versions, nextVid, now, pc, inst, old,
                   alerts, call, users, chat, seconds>>

\* Time passes
Tick ==
    /\ seconds + TickSeconds <= MaxSeconds
    /\ seconds' = seconds + TickSeconds
    /\ UNCHANGED <<rows, nextId, versions, nextVid, now, pc, inst, old, response,
                   alerts, call, users, chat>>

\* project_versions.order_by('version_number'): the history rows by ascending
\* version_number (rows of one version by primary key)
RECURSIVE order_by_version_number(_)
order_by_version_number(H) ==
    IF H = {} THEN << >>
    ELSE LET first == CHOOSE h \in H : \A g \in H :
                         \/ h.version_number < g.version_number
                         \/ h.version_number = g.version_number /\ h.id <= g.id
         IN <<first>> \o order_by_version_number(H \ {first})

\* version_history_data.sort(key=lambda x: x['version_number']): a stable sort
RECURSIVE sort(_)
sort(entries) ==
    IF entries = << >> THEN << >>
    ELSE LET last == entries[Len(entries)]
             front == sort(SubSeq(entries, 1, Len(entries) - 1))
             keep == { i \in 1 .. Len(front) : front[i].version_number <= last.version_number }
         IN SubSeq(front, 1, Cardinality(keep)) \o <<last>>
               \o SubSeq(front, Cardinality(keep) + 1, Len(front))

\* One entry of version_history_data for a ProjectVersion row
version_data(project_id, version) ==
    [ version_number |-> version.version_number,
      total_cost |-> version.vals["total_project_cost"],
      change_reason |-> version.change_reason,
      changed_by |-> version.changed_by,
      project_costs |->
          { g.id : g \in { g \in versions : /\ g.kind = "ProjectCost"
                                            /\ g.project = project_id
                                            /\ g.version_number = version.version_number } },
      project_overheads |->
          { g.id : g \in { g \in versions : /\ g.kind = "ProjectOverhead"
                                            /\ g.project = project_id
                                            /\ g.version_number = version.version_number } } ]

\* The entry for the main tables
current_version_data(project_id) ==
    [ version_number |-> rows["Project"][project_id].version_number,
      total_cost |-> rows["Project"][project_id].vals["total_project_cost"],
      change_reason |-> "Current version",
      changed_by |-> "system",
      project_costs |->
          { i \in DOMAIN rows["ProjectCost"] : rows["ProjectCost"][i].project = project_id },
      project_overheads |->
          { i \in DOMAIN rows["ProjectOverhead"] :
                rows["ProjectOverhead"][i].project = project_id } ]

\* A faulty variant of version_history_data: the current entry is left out.
version_history_without_current(project_id) ==
    LET project_versions == order_by_version_number(VersionsOf("Project", project_id))
    IN sort([i \in 1 .. Len(project_versions) |->
                 version_data(project_id, project_versions[i])])

\* version_history_data of ProjectVersionHistoryView.get: an entry per
\* ProjectVersion row of the project, then the current entry, sorted
version_history_data(project_id) ==
    LET project_versions == order_by_version_number(VersionsOf("Project", project_id))
    IN sort([i \in 1 .. Len(project_versions) |->
                 version_data(project_id, project_versions[i])]
            \o <<current_version_data(project_id)>>)

\* ProjectVersionHistoryView.get: 404 when the project is not stored, else the
\* version history; the view only reads.
VersionHistoryGet(project_id) ==
    /\ response' =
          IF Exists("Project", project_id)
          THEN [view |-> "version_history", status |-> 200, project_id |-> project_id,
                project_versions |-> version_history_data(project_id)]
          ELSE [view |-> "version_history", status |-> 404, project_id |-> project_id]
    /\ UNCHANGED <<alerts, call, users, chat, seconds, rows, nextId, versions, nextVid, now, pc, inst, old>>

\* A statement of save() fails (connection loss, constraint violation): the
\* exception leaves save(); what earlier statements wrote stays written, since
\* save() opens no transaction.
Fail(p) ==
    /\ pc[p] \in {"save", "history", "write"}
    /\ pc' = [pc EXCEPT ![p] = "idle"]
    /\ inst' = [inst EXCEPT ![p] = NoInst]
    /\ old' = [old EXCEPT ![p] = DoesNotExist]
    /\ UNCHANGED <<alerts, call, users, chat, seconds, response, rows, nextId, versions, nextVid, now>>

CreateAny ==
    \E kind \in Kinds : \E fields \in CreateInputs(kind) :
        \E pid \in {NullProject} \cup DOMAIN rows["Project"] : Create(kind, fields, pid)

DeleteAny ==
    \E kind \in Kinds : \E id \in DOMAIN rows[kind] : Delete(kind, id)

ImportAny ==
    \E fields \in CreateInputs("Project") :
      \E cost_items \in ItemLists("ProjectCost") :
        \E overhead_items \in ItemLists("ProjectOverhead") :
          \E external_version_number \in ExternalVersions :
            Import(fields, cost_items, overhead_items, external_version_number)

BeginAny(p) ==
    \E kind \in Kinds : \E id \in DOMAIN rows[kind] :
        \E update_data \in UpdateInputs(kind) : Begin(p, kind, id, update_data)

\* Some handler has the entity in hand
Busy(kind, id) ==
    \E p \in Procs : pc[p] # "idle" /\ inst[p].kind = kind /\ inst[p].id = id

\* A handler starts on an entity no other handler has in hand
BeginFree(p) ==
    \E kind \in Kinds : \E id \in DOMAIN rows[kind] :
        \E update_data \in UpdateInputs(kind) :
            ~Busy(kind, id) /\ Begin(p, kind, id, update_data)

ChatAcceptAny(p) ==
    \E approval \in Decisions : \E final_action \in Decisions :
        \E kind \in Kinds : \E id \in DOMAIN rows[kind] :
            \E update_data \in UpdateInputs(kind) :
                ChatAcceptPost(p, approval, final_action, kind, id, update_data)

CreateAlertAny ==
    \E project_id \in {NullProject} \cup DOMAIN rows["Project"] :
        \E fields \in AlertInputs : CreateAlert(project_id, fields)

UpdateAlertStatusAny ==
    \E alert_id \in DOMAIN alerts.rows : \E is_accept \in BOOLEAN :
        UpdateAlertStatus(alert_id, is_accept)

\* The budget rows an alert can refer to
CreateBudgetAny ==
    \E kind \in {"Project", "ProjectCost"} : \E fields \in CreateInputs(kind) :
        \E pid \in {NullProject} \cup DOMAIN rows["Project"] : Create(kind, fields, pid)

\* A plain update of a cost
BeginCostAny(p) ==
    \E id \in DOMAIN rows["ProjectCost"] : \E update_data \in UpdateInputs("ProjectCost") :
        Begin(p, "ProjectCost", id, update_data)

NoCalls == \A p \in Procs : call[p] = NoCall

RegisterValidateAny(p) ==
    \E email \in Emails : RegisterValidate(p, email, "pw")

VerifyOtpAny == \E email \in Emails : \E provided_otp \in Otps : VerifyOtp(email, provided_otp)

ResendOtpAny == \E email \in Emails : ResendOtp(email)

LoginAny == \E email \in Emails : \E password \in Passwords : Login(email, password)

SaveMessageAny == \E c \in chat.conversations : SaveMessage(c.conversation_id)

\* The approval goes to the decision service only, and a costing_json is
\* looked at only when the final action is accept.
ChatAcceptTransactionAny ==
    \E message_id \in 1..MaxChat, final_action \in Decisions, api_answer \in {NoText, "a"},
       project_uuid \in {NullProject} \cup DOMAIN rows["Project"] :
        \E costing_json \in IF final_action = "accept" THEN CostingJsons
                             ELSE {CHOOSE c \in CostingJsons : TRUE} :
            ChatAcceptTransaction(message_id, "accept", final_action, api_answer,
                                  costing_json, project_uuid)

\* One registration: handler h1 registers the first address
RegisterOne == RegisterValidate("h1", "e1", "pw") \/ RegisterSave("h1")

VerifyOtpCorrect == \E u \in DOMAIN users : VerifyOtp(users[u].email, users[u].otp)

CreateProjectAny == \E fields \in CreateInputs("Project") : Create("Project", fields, NullProject)

---------------------------------------------------------------------------
(* Specifications.  SpecSeq: operations one after the other, each running  *)
(* to its end.  SpecConc: the statements of two updates interleave,       *)
(* creation and deletion happen between them.  SpecFail: operations one    *)
(* after the other, a statement may fail.  Spec: any interleaving of       *)
(* creation, deletion and updates, with failures.                          *)

NextSeq ==
    \/ Quiet /\ CreateAny
    \/ Quiet /\ DeleteAny
    \/ \E p \in Procs : Alone(p) /\ BeginAny(p)
    \/ \E p \in Procs : SaveRead(p)
    \/ \E p \in Procs : \E origin \in Origins : SaveHistory(p, origin)
    \/ \E p \in Procs : SaveWrite(p)

NextConc ==
    \/ Quiet /\ CreateAny
    \/ Quiet /\ DeleteAny
    \/ \E p \in Procs : BeginAny(p)
    \/ \E p \in Procs : SaveRead(p)
    \/ \E p \in Procs : \E origin \in Origins : SaveHistory(p, origin)
    \/ \E p \in Procs : SaveWrite(p)

NextFail ==
    \/ NextSeq
    \/ \E p \in Procs : Fail(p)

Next ==
    \/ CreateAny
    \/ DeleteAny
    \/ \E p \in Procs : BeginAny(p)
    \/ \E p \in Procs : SaveRead(p)
    \/ \E p \in Procs : \E origin \in Origins : SaveHistory(p, origin)
    \/ \E p \in Procs : SaveWrite(p)
    \/ \E p \in Procs : Fail(p)

\* Operations one after the other, document imports among them
NextImport ==
    \/ NextSeq
    \/ Quiet /\ ImportAny

\* The statements of updates of different entities interleave
NextDisjoint ==
    \/ Quiet /\ CreateAny
    \/ Quiet /\ DeleteAny
    \/ \E p \in Procs : BeginFree(p)
    \/ \E p \in Procs : SaveRead(p)
    \/ \E p \in Procs : \E origin \in Origins : SaveHistory(p, origin)
    \/ \E p \in Procs : SaveWrite(p)

\* Operations one after the other, reads of the version history among them
NextHistory ==
    \/ NextSeq
    \/ \E project_id \in 1 .. MaxRows : Quiet /\ VersionHistoryGet(project_id)

\* Entities are created, and chat-accept requests come one after the other
NextChat ==
    \/ Quiet /\ CreateAny
    \/ \E p \in Procs : Alone(p) /\ ChatAcceptAny(p)
    \/ \E p \in Procs : SaveRead(p)
    \/ \E p \in Procs : SaveHistory(p, ChatOrigin)
    \/ \E p \in Procs : SaveWrite(p)

\* Alerts are stored, accepted and applied by handlers that interleave
NextAlerts ==
    \/ Quiet /\ NoCalls /\ CreateBudgetAny
    \/ Quiet /\ NoCalls /\ CreateAlertAny
    \/ UpdateAlertStatusAny
    \/ \E p \in Procs : AlertsExists(p)
    \/ \E p \in Procs : AlertsEvaluate(p)
    \/ \E p \in Procs : AlertsExamine(p)
    \/ \E p \in Procs : AlertsMarkSent(p)
    \/ \E p \in Procs : SaveRead(p)
    \/ \E p \in Procs : SaveHistory(p, OriginOf(p))
    \/ \E p \in Procs : SaveWrite(p)

\* The same, with plain updates of the costs in between, one at a time
NextAlertsUpdates ==
    \/ NextAlerts
    \/ \E p \in Procs :
          /\ call[p] = NoCall
          /\ \A q \in Procs \ {p} : pc[q] = "idle" \/ call[q] # NoCall
          /\ BeginCostAny(p)

\* Registrations interleave; OTPs are verified and sent again, users log in,
\* projects are created and time passes
NextAuth ==
    \/ \E p \in Procs : RegisterValidateAny(p)
    \/ \E p \in Procs : RegisterSave(p)
    \/ VerifyOtpAny
    \/ ResendOtpAny
    \/ LoginAny
    \/ Tick
    \/ CreateProjectAny

\* Chat-accept requests one after another, on budgets and chats of one user
NextChatTransaction ==
    \/ CreateAny
    \/ RegisterOne
    \/ VerifyOtpCorrect
    \/ SaveMessageAny
    \/ ChatAcceptTransactionAny

SpecSeq == Init /\ [][NextSeq]_vars
SpecConc == Init /\ [][NextConc]_vars
SpecFail == Init /\ [][NextFail]_vars
Spec == Init /\ [][Next]_vars
SpecImport == Init /\ [][NextImport]_vars
SpecDisjoint == Init /\ [][NextDisjoint]_vars
SpecHistory == Init /\ [][NextHistory]_vars
SpecChat == Init /\ [][NextChat]_vars
SpecChatTransaction == Init /\ [][NextChatTransaction]_vars
SpecAuth == Init /\ [][NextAuth]_vars
SpecAlertsUpdates == Init /\ [][NextAlertsUpdates]_vars


---------------------------------------------------------------------------
(* Properties.                                                             *)

VersionNumbers(H) == { h.version_number : h \in H }

\* The fields the specification lists as not tracked.
NonTracked(kind) ==
    CASE kind = "Project" -> {}
      [] kind = "ProjectCost" -> {"category_code", "category_name", "item_description", "unit"}
      [] kind = "ProjectOverhead" -> {"basis"}

Differ(kind, a, b) == { f \in Fields(kind) : a[f] # b[f] }

C3_NoOpStable ==
    [][ \A p \in Procs :
          (/\ pc[p] # "idle"
           /\ Exists(inst[p].kind, inst[p].id)
           /\ inst[p].vals = rows[inst[p].kind][inst[p].id].vals)
          => /\ versions' = versions
             /\ inst[p].id \in DOMAIN rows'[inst[p].kind]
             /\ rows'[inst[p].kind][inst[p].id].version_number
                   = rows[inst[p].kind][inst[p].id].version_number ]_vars

\* save() of an instance identical to an already updated entity has read
\* old_instance and is about to write the row.
C3_Witness ==
    \E p \in Procs :
        /\ pc[p] = "write"
        /\ Exists(inst[p].kind, inst[p].id)
        /\ inst[p].vals = rows[inst[p].kind][inst[p].id].vals
        /\ rows[inst[p].kind][inst[p].id].version_number = 2

\* C4: a save that differs from the stored row only in non-tracked fields
\* stores the new values, leaves version_number unchanged and leaves the
\* entity with no more history rows than before (version_number - 1).
C4_NonTrackedOnly ==
    [][ \A p \in Procs :
          (/\ pc[p] = "write" /\ pc'[p] = "idle"
           /\ Exists(inst[p].kind, inst[p].id)
           /\ rows' # rows
           /\ Differ(inst[p].kind, inst[p].vals, rows[inst[p].kind][inst[p].id].vals) # {}
           /\ Differ(inst[p].kind, inst[p].vals, rows[inst[p].kind][inst[p].id].vals)
                 \subseteq NonTracked(inst[p].kind))
          => LET kind == inst[p].kind
                 id == inst[p].id
             IN /\ rows'[kind][id].vals = inst[p].vals
                /\ rows'[kind][id].version_number = rows[kind][id].version_number
                /\ versions' = versions
                /\ Cardinality(VersionsOf(kind, id)) = rows[kind][id].version_number - 1 ]_vars

\* A cost whose unit was changed and an overhead whose basis was changed, both
\* still at version 1 without history.
C4_Witness ==
    /\ \E id \in DOMAIN rows["ProjectCost"] :
          /\ rows["ProjectCost"][id].vals["unit"] = "b"
          /\ rows["ProjectCost"][id].version_number = 1
          /\ VersionsOf("ProjectCost", id) = {}
    /\ \E id \in DOMAIN rows["ProjectOverhead"] :
          /\ rows["ProjectOverhead"][id].vals["basis"] = "b"
          /\ rows["ProjectOverhead"][id].version_number = 1
          /\ VersionsOf("ProjectOverhead", id) = {}

\* C5: a history row is written as a copy of every field of the stored row
\* (project, tracked, non-tracked and line_total) under the stored version
\* number, and when the entity's version changes there is a history row tagged
\* with the new version minus 1 that holds the row as it was before the write.
C5_SnapshotBefore ==
    [][ /\ \A h \in versions' \ versions :
              /\ Exists(h.kind, h.original_record)
              /\ h.vals = rows[h.kind][h.original_record].vals
              /\ h.project = rows[h.kind][h.original_record].project
              /\ h.version_number = rows[h.kind][h.original_record].version_number
        /\ \A kind \in Kinds : \A id \in DOMAIN rows[kind] \cap DOMAIN rows'[kind] :
              rows'[kind][id].version_number # rows[kind][id].version_number =>
                 \E h \in VersionsIn(versions', kind, id) :
                    /\ h.version_number = rows'[kind][id].version_number - 1
                    /\ h.vals = rows[kind][id].vals
                    /\ h.project = rows[kind][id].project ]_vars

\* A cost at version 2 with quantity 3 and line_total 9 whose history row holds
\* the changed unit, quantity 2 and line_total 6 of version 1.
C5_Witness ==
    \E id \in DOMAIN rows["ProjectCost"] :
        /\ rows["ProjectCost"][id].version_number = 2
        /\ rows["ProjectCost"][id].vals["quantity"] = 3
        /\ rows["ProjectCost"][id].vals["line_total"] = 9
        /\ \E h \in VersionsOf("ProjectCost", id) :
              /\ h.version_number = 1
              /\ h.vals["unit"] = "b"
              /\ h.vals["quantity"] = 2
              /\ h.vals["line_total"] = 6

\* C6: the stored version_number of an entity never decreases, whatever the
\* interleaving of the handlers' statements.
C6_VersionNeverDecreases ==
    [][ \A kind \in Kinds : \A id \in DOMAIN rows[kind] \cap DOMAIN rows'[kind] :
          rows'[kind][id].version_number >= rows[kind][id].version_number ]_vars

\* C7: two concurrent updates of one entity never write two history rows tagged
\* with the same version, and once both are done the entity's history versions
\* are exactly 1 .. v-1.
C7_SerializedUpdates ==
    \A kind \in Kinds : \A id \in DOMAIN rows[kind] :
        LET H == VersionsOf(kind, id)
        IN /\ \A g, h \in H : g.version_number = h.version_number => g = h
           /\ Quiet => VersionNumbers(H) = 1 .. (rows[kind][id].version_number - 1)

\* C8: when a statement of an update fails, no history row written by that
\* update remains: none is tagged with the version the entity still has.
C8_FailedUpdateLeavesNothing ==
    [][ \A p \in Procs :
          (Fail(p) /\ Exists(inst[p].kind, inst[p].id)) =>
             \A h \in VersionsOf(inst[p].kind, inst[p].id) :
                h.version_number # rows[inst[p].kind][inst[p].id].version_number ]_vars

\* C9: every stored cost has line_total = quantity * rate_per_unit.
C9_LineTotalIsProduct ==
    \A id \in DOMAIN rows["ProjectCost"] :
        LET v == rows["ProjectCost"][id].vals
        IN v["line_total"] = v["quantity"] * v["rate_per_unit"]

\* C10: a history row stays as it was written, field by field, in every step;
\* it goes only in a step that deletes its entity or its project.
C10_HistoryImmutable ==
    [][ \A h \in versions :
          \/ h \in versions'
          \/ /\ Exists(h.kind, h.original_record)
             /\ ~Exists(h.kind, h.original_record)'
          \/ /\ h.project # NullProject
             /\ Exists("Project", h.project)
             /\ ~Exists("Project", h.project)' ]_vars

\* An entity was updated again after its first history row was written: the
\* row of clock 2 is still there beside a later one.
C10_Witness ==
    \E h \in versions :
        /\ h.created_at = 2
        /\ \E g \in VersionsOf(h.kind, h.original_record) : g.created_at > h.created_at
        /\ Exists(h.kind, h.original_record)
        /\ rows[h.kind][h.original_record].vals # h.vals

\* C11: after a project is deleted nothing refers to it or to an entity that
\* went with it: every cost and overhead has no project or a stored one, every
\* history row has a stored original_record and no project or a stored one.
C11_NoOrphans ==
    /\ \A kind \in {"ProjectCost", "ProjectOverhead"} : \A id \in DOMAIN rows[kind] :
          ProjectFkOk(rows[kind][id].project)
    /\ \A h \in versions :
          /\ Exists(h.kind, h.original_record)
          /\ ProjectFkOk(h.project)

\* A project with a cost that had a history row was deleted in one delete:
\* five writes (two creates, history row, row write, delete) left no row at all.
C11_Witness ==
    /\ now = 5
    /\ nextId["Project"] = 2 /\ nextId["ProjectCost"] = 2 /\ nextId["ProjectOverhead"] = 1
    /\ nextVid = 2
    /\ rows["Project"] = << >> /\ rows["ProjectCost"] = << >>
    /\ versions = {}

\* C12: a row that appears in an entity table has version_number 1 and no
\* history row, whichever creation path inserted it.
C12_CreatedAtVersionOne ==
    [][ \A kind \in Kinds : \A id \in DOMAIN rows'[kind] \ DOMAIN rows[kind] :
          /\ rows'[kind][id].version_number = 1
          /\ VersionsIn(versions', kind, id) = {} ]_vars

\* C13: an update of an id that does not resolve writes nothing: a row enters
\* an entity table only under a fresh id, never under the id of a row that was
\* deleted, and no history row is written for an entity that is not stored.
C13_NotFoundWritesNothing ==
    [][ /\ \A kind \in Kinds : \A id \in DOMAIN rows'[kind] \ DOMAIN rows[kind] :
              id >= nextId[kind]
        /\ \A h \in versions' \ versions : Exists(h.kind, h.original_record) ]_vars

\* C14: values that fail validation never reach the store: every stored cost
\* and overhead satisfies the validators.
C14_StoredValuesValid ==
    \A kind \in Kinds : \A id \in DOMAIN rows[kind] : is_valid(kind, rows[kind][id].vals)

\* C15: a statement of the update of one entity leaves the row and the
\* history rows of every other entity as they are, and while updates of
\* different entities interleave every entity no handler has in hand is as
\* updates run one after the other leave it: v-1 history rows numbered 1 .. v-1.
C15_Independent ==
    [][ /\ \A p \in Procs :
              (pc[p] # "idle" /\ pc'[p] # pc[p]) =>
                 \A kind \in Kinds : \A id \in DOMAIN rows[kind] :
                    (kind # inst[p].kind \/ id # inst[p].id) =>
                       /\ id \in DOMAIN rows'[kind]
                       /\ rows'[kind][id] = rows[kind][id]
                       /\ VersionsIn(versions', kind, id) = VersionsOf(kind, id)
        /\ \A kind \in Kinds : \A id \in DOMAIN rows[kind] :
              ~Busy(kind, id) =>
                 /\ Cardinality(VersionsOf(kind, id)) = rows[kind][id].version_number - 1
                 /\ VersionNumbers(VersionsOf(kind, id))
                       = 1 .. (rows[kind][id].version_number - 1) ]_vars

\* Two handlers are in the middle of updates of two different entities, one of
\* which already has a history row, and one has written its history row.
C15_Witness ==
    /\ pc["h1"] = "write" /\ pc["h2"] = "history"
    /\ inst["h1"].kind # inst["h2"].kind
    /\ inst["h1"].version_number = 2
    /\ \E h \in versions : h.kind = inst["h2"].kind /\ h.original_record = inst["h2"].id

\* C16: an update whose tracked values denote the values already stored, in
\* whatever representation they arrive, writes no history row and leaves
\* version_number alone: a step that stores the same tracked values stores the
\* same version_number, and a history row is written only by an update that
\* brings a tracked value other than the stored one.
C16_SameValueNoBump ==
    [][ /\ \A kind \in Kinds : \A id \in DOMAIN rows[kind] \cap DOMAIN rows'[kind] :
              (\A f \in fields_to_track(kind) :
                    rows'[kind][id].vals[f] = rows[kind][id].vals[f])
              => rows'[kind][id].version_number = rows[kind][id].version_number
        /\ \A p \in Procs :
              (pc[p] = "history" /\ versions' # versions) =>
                 \E f \in fields_to_track(inst[p].kind) :
                    to_python(f, inst[p].vals[f]) # rows[inst[p].kind][inst[p].id].vals[f] ]_vars

\* C17: the version history of a stored project has one entry per history row
\* of the project and exactly one 'Current version' entry, which comes last
\* and carries the project's version_number; the request changes no row.
C17_ListHistory ==
    [][ response' # response =>
          /\ UNCHANGED <<rows, versions, nextId, nextVid>>
          /\ response'.status = 200 =>
                LET id == response'.project_id
                    out == response'.project_versions
                    H == VersionsOf("Project", id)
                    current == { i \in 1 .. Len(out) : out[i].change_reason = "Current version" }
                IN /\ Len(out) = Cardinality(H) + 1
                   /\ \A h \in H :
                         Cardinality({ i \in 1 .. Len(out) :
                                          /\ out[i].version_number = h.version_number
                                          /\ out[i].change_reason = h.change_reason
                                          /\ out[i].changed_by = h.changed_by
                                          /\ out[i].total_cost = h.vals["total_project_cost"] }) = 1
                   /\ current = {Len(out)}
                   /\ out[Len(out)].version_number = rows["Project"][id].version_number ]_vars

\* The history of a project at version 3 was read: three entries.
C17_Witness ==
    /\ response.view = "version_history"
    /\ response.status = 200
    /\ Len(response.project_versions) = 3
    /\ response.project_versions[3].version_number = 3

\* C18: a chat-accept request whose final_action is not 'accept' starts no
\* budget update, whatever the user's approval, and a statement of a
\* chat-accept request changes an entity row or a history row only when the
\* final_action of that request was 'accept'.
C18_OnlyOnFinalAccept ==
    [][ /\ (response' # response /\ response'.final_action # "accept")
              => UNCHANGED <<rows, versions, nextId, nextVid, pc, inst>>
        /\ \A p \in Procs :
              (pc[p] # "idle" /\ pc'[p] # pc[p] /\ (rows' # rows \/ versions' # versions))
              => response.final_action = "accept" ]_vars

\* A chat-accept request with approval 'accept' and final_action 'reject' was
\* answered after an earlier one with final_action 'accept' had changed a cost.
C18_Witness ==
    /\ response.view = "chat_accept"
    /\ response.approval = "accept" /\ response.final_action = "reject"
    /\ Quiet
    /\ \E id \in DOMAIN rows["ProjectCost"] : rows["ProjectCost"][id].vals["unit"] = "b"

\* C19: an update that reaches the creation of its history row, with whatever
\* actor and reason were supplied (none, a free-text actor, the chat-accept
\* actor), writes a history row that carries exactly that actor and reason.
C19_ActorRecorded ==
    [][ \A p \in Procs : \A origin \in Origins \cup {ChatOrigin} :
           (SaveHistory(p, origin) /\ Exists(inst[p].kind, inst[p].id))
           => \E h \in versions' \ versions :
                 /\ h.changed_by = origin.changed_by
                 /\ h.change_reason = origin.change_reason ]_vars

\* C20: a document import leaves every entity row and every history row that
\* existed before it as it was, writes no history row, and adds exactly one
\* project together with cost and overhead rows that belong to that project.
C20_ImportOnlyCreates ==
    [][ ImportAny =>
          /\ \A kind \in Kinds : \A id \in DOMAIN rows[kind] :
                id \in DOMAIN rows'[kind] /\ rows'[kind][id] = rows[kind][id]
          /\ versions' = versions
          /\ Cardinality(DOMAIN rows'["Project"] \ DOMAIN rows["Project"]) = 1
          /\ \A kind \in {"ProjectCost", "ProjectOverhead"} :
                \A id \in DOMAIN rows'[kind] \ DOMAIN rows[kind] :
                    rows'[kind][id].project = nextId["Project"] ]_vars

\* A cost was created and updated (its history row dates from the second
\* tick), and then an import added a project at the external version with an
\* overhead of its own.
C20_Witness ==
    /\ now = MaxClock
    /\ \E h \in versions : h.kind = "ProjectCost" /\ h.created_at = 2
    /\ \E id \in DOMAIN rows["ProjectCost"] :
          rows["ProjectCost"][id].version_number = 2
          /\ rows["ProjectCost"][id].project = NullProject
    /\ \E pid \in DOMAIN rows["Project"] :
          /\ rows["Project"][pid].version_number = 3
          /\ VersionsOf("Project", pid) = {}
          /\ \E id \in DOMAIN rows["ProjectOverhead"] :
                rows["ProjectOverhead"][id].project = pid
                /\ rows["ProjectOverhead"][id].version_number = 3

\* C25: the row write of an update changes only the fields that update
\* supplied (and line_total, which save() derives): a field another update
\* changed in the meantime is not put back to the value this update loaded.
C25_OnlySuppliedFieldsWritten ==
    [][ \A p \in Procs :
          (pc[p] = "write" /\ pc'[p] = "idle" /\ Exists(inst[p].kind, inst[p].id)
             /\ inst[p].id \in DOMAIN rows'[inst[p].kind])
          => \A f \in Fields(inst[p].kind) \ (inst[p].supplied \cup {"line_total"}) :
                rows'[inst[p].kind][inst[p].id].vals[f]
                   = rows[inst[p].kind][inst[p].id].vals[f] ]_vars

C26_OnlyExaminedMarkedSent ==
    [][ \A p \in Procs :
          (call[p].view = "accepted_alerts" /\ call'[p] = NoCall)
          => \A a \in DOMAIN alerts.rows :
                (alerts'.rows[a].is_sent /\ ~alerts.rows[a].is_sent)
                => \E i \in DOMAIN call[p].cache : call[p].cache[i].alert_id = a ]_vars

C22_OneUserPerEmail ==
    [][ /\ \A u1 \in DOMAIN users' : \A u2 \in DOMAIN users' :
              users'[u1].email = users'[u2].email => u1 = u2
        /\ (response' # response /\ response'.view = "register"
              /\ response'.status \in {400, 500})
              => users' = users ]_vars

\* Two registrations with one email overlapped; the one that came second to
\* the INSERT was turned down by the unique constraint.
C22_Witness ==
    /\ response.view = "register" /\ response.status = 500
    /\ Cardinality(users_with_email(response.email)) = 1

\* C23: a registration that stores a user leaves, for every project that
\* exists, exactly one session of that user, holding exactly one conversation
\* and exactly one assistant message.
C23_SessionPerProject ==
    [][ Len(users') > Len(users)
        => \A project_id \in DOMAIN rows["Project"] :
             /\ Cardinality({ x \in chat'.sessions :
                                x.user_id = Len(users') /\ x.project_id = project_id }) = 1
             /\ \A x \in chat'.sessions :
                  (x.user_id = Len(users') /\ x.project_id = project_id)
                  => /\ Cardinality({ c \in chat'.conversations :
                                        c.session = x.session_id }) = 1
                     /\ Cardinality({ m \in chat'.messages :
                                        /\ m.session = x.session_id
                                        /\ m.message_type = "assistant" }) = 1 ]_vars

C24_EarlierEntitiesKept ==
    [][(/\ response' # response
        /\ response'.view = "chat_accept_transaction"
        /\ response'.status = 500
        /\ response'.written)
       => rows' # rows]_vars

\* C24, amended: the chat-accept budget update is one transaction over the
\* project, its cost items and its overheads; when it fails on any entity, no
\* entity row, version number, history row or session of that request remains.
C24_RolledBackTogether ==
    [][(/\ response' # response
        /\ response'.view = "chat_accept_transaction"
        /\ response'.status = 500)
       => /\ UNCHANGED <<rows, nextId, versions, nextVid, now>>
          /\ chat'.sessions = chat.sessions]_vars

\* A chat-accept request failed after its transaction had written to an
\* earlier entity.
C24_Witness ==
    /\ response.view = "chat_accept_transaction"
    /\ response.status = 500
    /\ response.written

\* C27: a chat-accept request whose budget update failed does not leave the
\* message, not accepted before, stored as accepted and hidden.
C27_AcceptedOnlyIfCommitted ==
    [][(/\ response' # response
        /\ response'.view = "chat_accept_transaction"
        /\ response'.status = 500)
       => \A m \in chat.messages :
             (m.message_id = response'.message_id /\ ~m.is_accept)
             => \A n \in chat'.messages :
                   n.message_id = m.message_id => ~(n.is_accept /\ n.is_hide)]_vars

\* C29: when a project leaves version v, the entry the version-history listing
\* gives for v from then on lists exactly the values the project's cost items
\* and overheads had at that moment, the last moment of version v.
C29_ItemsOfHistoricalVersion ==
    [][\A id \in DOMAIN rows["Project"] \cap DOMAIN rows'["Project"] :
          rows'["Project"][id].version_number # rows["Project"][id].version_number =>
             LET v == rows["Project"][id].version_number
                 out == version_history_data(id)'
                 listed(e, kind) ==
                     { g.vals : g \in { g \in versions' :
                          /\ g.kind = kind
                          /\ g.id \in (IF kind = "ProjectCost" THEN e.project_costs
                                       ELSE e.project_overheads) } }
                 stored(kind) ==
                     { rows[kind][i].vals :
                          i \in { i \in DOMAIN rows[kind] : rows[kind][i].project = id } }
             IN \A n \in 1 .. Len(out) :
                   (out[n].version_number = v /\ out[n].change_reason # "Current version")
                   => \A kind \in {"ProjectCost", "ProjectOverhead"} :
                         listed(out[n], kind) = stored(kind)]_vars

===========================================================================
